---- MODULE Spec2Model ----
(***************************************************************************)
(* A model of advanced-vector/vector.h: RawMemory<T> (an owned block of    *)
(* uninitialized slots) and Vector<T> (a RawMemory plus a size, with       *)
(* explicit construction and destruction of the elements in the slots).    *)
(*                                                                         *)
(* The heap is a finite set of blocks; a slot of a block is either         *)
(* uninitialized or holds a value.  Every handler of vector.h is an        *)
(* operator that threads a "machine" record through the element            *)
(* operations the handler executes, in the order of the code.  The machine *)
(* carries the heap, the pending exception, and three flags raised by the  *)
(* primitive operations: ub (a slot was constructed while live, or         *)
(* destroyed, assigned, read or moved from while not live), leak (a block  *)
(* was released while a slot of it was live) and dfree (a block was        *)
(* released twice).  An exception is injected by the input `fault`: the    *)
(* fault-th operation that may throw for the element type, throws.         *)
(***************************************************************************)
EXTENDS Integers, Sequences, FiniteSets, TLC

\* ---------------------------------------------------------------- bounds
MaxCap  == 4      \* largest capacity an operation of Spec may produce
MaxVal  == 2      \* element values supplied by the caller are 1..MaxVal
NBlocks == 3      \* blocks of the heap
PairCap == 2      \* largest capacity an operation of SpecNoFail may produce
PairVal == 1      \* element values supplied by the caller in SpecNoFail
ReserveCap == 3   \* largest capacity an operation of SpecReserve may produce
PushLen == 5      \* SpecPush pushes the values 1..PushLen, up to PushLen elements
EraseLen == 4     \* SpecErase holds up to EraseLen elements of the values 1..EraseLen
PushCap == 8      \* largest capacity an operation of SpecPush may produce

\* ------------------------------------------------------- value encoding
Null       == 0     \* nullptr (RawMemory::buffer_ of an empty RawMemory)
Uninit     == -2    \* a slot of raw memory holding no object
MovedFrom  == -1    \* the value of an object that has been moved from
DefaultVal == 0     \* the value of T()

Val    == 1 .. MaxVal
Blocks == 1 .. NBlocks

\* The element types T the template is instantiated with:
\*   "int"      trivially copyable; nothing throws; a move is a copy
\*   "string"   noexcept move that empties its source; copying may throw
\*   "throwing" copy constructible, every constructor and assignment may
\*              throw; its move empties its source
ElemTypes == {"int", "string", "throwing"}

is_nothrow_move_constructible(t) == t \in {"int", "string"}
is_copy_constructible(t) == t \in {"int", "string", "throwing"}
MoveEmpties(t) == t \in {"string", "throwing"}

\* Which element operations may throw for element type t.
MayThrow(t, kind) ==
    CASE kind = "alloc"   -> TRUE
      [] kind = "copy"    -> t \in {"string", "throwing"}
      [] kind = "args"    -> t \in {"string", "throwing"}
      [] kind = "assign"  -> t \in {"string", "throwing"}
      [] kind = "move"    -> t = "throwing"
      [] kind = "massign" -> t = "throwing"
      [] kind = "default" -> t = "throwing"
      [] OTHER            -> FALSE

VARIABLES elemType, heap, vec, raw, last, reserved

vars == <<elemType, heap, vec, raw, last, reserved>>

\* ------------------------------------------------------------- machine
FreeBlock == [alloc |-> FALSE, slots |-> <<>>]

NewMachine(t, h, fault) ==
    [t |-> t, heap |-> h, fuel |-> fault, exc |-> "none", excIdx |-> -1,
     ub |-> FALSE, leak |-> FALSE, dfree |-> FALSE]

Thrown(m) == m.exc # "none"

\* An operation of kind `kind` on element idx is about to run: it throws
\* when it is the fault-th operation that may throw.
Tick(m, kind, idx) ==
    IF ~MayThrow(m.t, kind) \/ m.fuel = 0 THEN m
    ELSE IF m.fuel = 1 THEN [m EXCEPT !.fuel = 0, !.exc = kind, !.excIdx = idx]
    ELSE [m EXCEPT !.fuel = @ - 1]

\* A fault number no call reaches: the call runs without an exception.
NoFault == 8 * (MaxCap + 2)

\* The number of operations that may throw, in a run that ended in m
\* having started from Machine(NoFault).
ThrowPoints(m) == NoFault - m.fuel

Repeat(x, n) == [i \in 1 .. n |-> x]

Min(a, b) == IF a < b THEN a ELSE b

\* v is computed once and named in K: `auto x = v; K`.
Then(v, K(_)) == K(v)

\* operator new: the lowest free block, n uninitialized slots; bad_alloc
\* when the heap is exhausted.
TakeBlock(m, n) ==
    IF \A b \in Blocks : m.heap[b].alloc
    THEN [m |-> [m EXCEPT !.exc = "alloc"], p |-> Null]
    ELSE Then(CHOOSE x \in Blocks :
                  /\ ~m.heap[x].alloc
                  /\ \A y \in Blocks : ~m.heap[y].alloc => x <= y,
              LAMBDA b : [m |-> [m EXCEPT !.heap[b] =
                                    [alloc |-> TRUE, slots |-> Repeat(Uninit, n)]],
                          p |-> b])

\* RawMemory::Allocate: n slots of raw memory, nullptr for n = 0.
Allocate(m, n) ==
    IF n = 0 THEN [m |-> m, p |-> Null]
    ELSE Then(Tick(m, "alloc", -1), LAMBDA m1 :
              IF Thrown(m1) THEN [m |-> m1, p |-> Null] ELSE TakeBlock(m1, n))

\* RawMemory::Deallocate: operator delete; a no-op on nullptr.
Deallocate(m, b) ==
    IF b = Null THEN m
    ELSE IF ~m.heap[b].alloc THEN [m EXCEPT !.dfree = TRUE]
    ELSE [m EXCEPT !.heap[b] = FreeBlock,
                   !.leak = @ \/ (\E i \in 1 .. Len(m.heap[b].slots) :
                                      m.heap[b].slots[i] # Uninit)]

\* Slot i (from 0) of block b is a slot of allocated memory.
ValidSlot(m, b, i) ==
    /\ b \in Blocks
    /\ m.heap[b].alloc
    /\ i >= 0
    /\ i < Len(m.heap[b].slots)

SlotVal(m, b, i) == IF ValidSlot(m, b, i) THEN m.heap[b].slots[i + 1] ELSE Uninit

IsLive(m, b, i) == SlotVal(m, b, i) # Uninit

Poke(m, b, i, x) ==
    IF ValidSlot(m, b, i) THEN [m EXCEPT !.heap[b].slots[i + 1] = x] ELSE m

Flag(m, bad) == IF bad THEN [m EXCEPT !.ub = TRUE] ELSE m

\* placement new of an object of value x in slot (b, i)
ConstructAt(m, b, i, x) ==
    Poke(Flag(m, ~ValidSlot(m, b, i) \/ IsLive(m, b, i)), b, i, x)

\* std::destroy_at
DestroyAt(m, b, i) == Poke(Flag(m, ~IsLive(m, b, i)), b, i, Uninit)

\* The value a move leaves in its source: the element type decides.
AfterMove(m, x) == IF MoveEmpties(m.t) /\ x # Uninit THEN MovedFrom ELSE x

\* new (dst) T(src): copy construction of slot (db, di) from slot (sb, si)
CopyConstruct(m, db, di, sb, si) ==
    Then(Tick(m, "copy", si), LAMBDA m1 :
         IF Thrown(m1) THEN m1
         ELSE ConstructAt(Flag(m1, ~IsLive(m1, sb, si)), db, di, SlotVal(m1, sb, si)))

\* new (dst) T(std::move(src))
MoveConstruct(m, db, di, sb, si) ==
    Then(Tick(m, "move", si), LAMBDA m1 :
         IF Thrown(m1) THEN m1
         ELSE ConstructAt(Poke(Flag(m1, ~IsLive(m1, sb, si)), sb, si,
                               AfterMove(m1, SlotVal(m1, sb, si))),
                          db, di, SlotVal(m1, sb, si)))

\* *dst = std::move(*src)
MoveAssign(m, db, di, sb, si) ==
    Then(Tick(m, "massign", si), LAMBDA m1 :
         IF Thrown(m1) THEN m1
         ELSE Poke(Poke(Flag(m1, ~IsLive(m1, sb, si) \/ ~IsLive(m1, db, di)),
                        sb, si, AfterMove(m1, SlotVal(m1, sb, si))),
                   db, di, SlotVal(m1, sb, si)))

\* *dst = *src
CopyAssign(m, db, di, sb, si) ==
    Then(Tick(m, "assign", si), LAMBDA m1 :
         IF Thrown(m1) THEN m1
         ELSE Poke(Flag(m1, ~IsLive(m1, sb, si) \/ ~IsLive(m1, db, di)),
                   db, di, SlotVal(m1, sb, si)))

\* new (dst) T()
ValueConstruct(m, db, di) ==
    Then(Tick(m, "default", di), LAMBDA m1 :
         IF Thrown(m1) THEN m1 ELSE ConstructAt(m1, db, di, DefaultVal))

\* std::destroy_n(b + off, n)
RECURSIVE destroy_n(_, _, _, _)
destroy_n(m, b, off, n) ==
    IF n <= 0 THEN m ELSE destroy_n(DestroyAt(m, b, off), b, off + 1, n - 1)

\* std::uninitialized_copy_n(sb + so, n, db + do): on a throw the objects
\* already constructed in the destination are destroyed.  k counts the
\* elements done.
RECURSIVE uninitialized_copy_n(_, _, _, _, _, _, _)
uninitialized_copy_n(m, sb, so, n, db, do, k) ==
    IF k >= n THEN m
    ELSE Then(CopyConstruct(m, db, do + k, sb, so + k), LAMBDA m1 :
              IF Thrown(m1) THEN destroy_n(m1, db, do, k)
              ELSE uninitialized_copy_n(m1, sb, so, n, db, do, k + 1))

\* std::uninitialized_move_n
RECURSIVE uninitialized_move_n(_, _, _, _, _, _, _)
uninitialized_move_n(m, sb, so, n, db, do, k) ==
    IF k >= n THEN m
    ELSE Then(MoveConstruct(m, db, do + k, sb, so + k), LAMBDA m1 :
              IF Thrown(m1) THEN destroy_n(m1, db, do, k)
              ELSE uninitialized_move_n(m1, sb, so, n, db, do, k + 1))

\* std::uninitialized_value_construct_n
RECURSIVE uninitialized_value_construct_n(_, _, _, _, _)
uninitialized_value_construct_n(m, b, off, n, k) ==
    IF k >= n THEN m
    ELSE Then(ValueConstruct(m, b, off + k), LAMBDA m1 :
              IF Thrown(m1) THEN destroy_n(m1, b, off, k)
              ELSE uninitialized_value_construct_n(m1, b, off, n, k + 1))

\* std::move_backward(b + first, b + lst, b + dlast): the last element first
RECURSIVE move_backward(_, _, _, _, _)
move_backward(m, b, first, lst, dlast) ==
    IF lst <= first \/ Thrown(m) THEN m
    ELSE move_backward(MoveAssign(m, b, dlast - 1, b, lst - 1),
                       b, first, lst - 1, dlast - 1)

\* std::move(b + first, b + lst, b + dfirst): the first element first
RECURSIVE move_forward(_, _, _, _, _)
move_forward(m, b, first, lst, dfirst) ==
    IF lst <= first \/ Thrown(m) THEN m
    ELSE move_forward(MoveAssign(m, b, dfirst, b, first),
                      b, first + 1, lst, dfirst + 1)

\* std::copy_n(sb + 0, n, db + 0)
RECURSIVE copy_n(_, _, _, _, _)
copy_n(m, sb, n, db, k) ==
    IF k >= n \/ Thrown(m) THEN m
    ELSE copy_n(CopyAssign(m, db, k, sb, k), sb, n, db, k + 1)

\* --------------------------------------------------------- RawMemory<T>
\* RawMemory(): buffer_ = nullptr, capacity_ = 0
EmptyRawMemory == [buffer |-> Null, capacity |-> 0]

\* RawMemory(size_t capacity); ret = 1 when the object is constructed
RawMemorySized(m, capacity) ==
    Then(Allocate(m, capacity), LAMBDA a :
         IF Thrown(a.m) THEN [m |-> a.m, d |-> EmptyRawMemory, ret |-> 0]
         ELSE [m |-> a.m, d |-> [buffer |-> a.p, capacity |-> capacity], ret |-> 1])

\* ~RawMemory
RawMemoryDestructor(m, d) == Deallocate(m, d.buffer)

\* RawMemory::Swap, as the pair (this, other) after the call
RawMemorySwap(d, o) == [this |-> o, other |-> d]

\* RawMemory(RawMemory&&): the members are default-initialized, then Swap(other)
RawMemoryMove(other) == RawMemorySwap(EmptyRawMemory, other)

\* RawMemory::operator=(RawMemory&&) for this != &rhs: Deallocate(buffer_),
\* capacity_ = 0, Swap(rhs); buffer_ keeps the released address.
RawMemoryMoveAssignment(m, d, rhs) ==
    [m |-> Deallocate(m, d.buffer),
     s |-> RawMemorySwap([d EXCEPT !.capacity = 0], rhs)]

\* ------------------------------------------------------------ Vector<T>
\* A Vector is its data_ (buffer_, capacity_) and its size_.
EmptyVector == [buffer |-> Null, capacity |-> 0, size |-> 0]

\* The values in slots [0, size) of the vector's block.
Contents(h, v) ==
    [i \in 1 .. v.size |->
        IF v.buffer \in Blocks /\ h[v.buffer].alloc /\ i <= Len(h[v.buffer].slots)
        THEN h[v.buffer].slots[i] ELSE Uninit]

\* The class invariant: the block has capacity slots, exactly the slots
\* [0, size) are live, and an empty RawMemory has no block.
WellFormed(h, v) ==
    /\ 0 <= v.size
    /\ v.size <= v.capacity
    /\ IF v.buffer = Null THEN v.capacity = 0
       ELSE /\ v.buffer \in Blocks
            /\ h[v.buffer].alloc
            /\ Len(h[v.buffer].slots) = v.capacity
            /\ \A i \in 1 .. v.capacity : (h[v.buffer].slots[i] # Uninit) <=> (i <= v.size)

\* Mutant: the elements are always relocated by move.
RelocateByMove_Always(t) == TRUE

\* if constexpr (is_nothrow_move_constructible_v<T> || !is_copy_constructible_v<T>)
RelocateByMove(t) == is_nothrow_move_constructible(t) \/ ~is_copy_constructible(t)

\* An argument of Emplace/PushBack/Insert: a value of the caller, or a
\* reference to the element at index x of the vector itself, read when the
\* new element is constructed.
ArgVal(x) == [ref |-> FALSE, x |-> x]
ArgRef(i) == [ref |-> TRUE, x |-> i]

\* new (b + i) T(std::forward<Args>(args)...); sb is the block the
\* reference, if the argument is one, points into.
ConstructFromArg(m, b, i, arg, sb) ==
    Then(Tick(m, "args", i), LAMBDA m1 :
         IF Thrown(m1) THEN m1
         ELSE IF arg.ref
              THEN ConstructAt(Flag(m1, ~IsLive(m1, sb, arg.x)), b, i,
                               SlotVal(m1, sb, arg.x))
              ELSE ConstructAt(m1, b, i, arg.x))

Result(m, v, ret) == [m |-> m, v |-> v, ret |-> ret]

\* Mutant: the last element is not relocated.
Relocate_AllButLast(m, v, nb) ==
    IF RelocateByMove(m.t)
    THEN uninitialized_move_n(m, v.buffer, 0, v.size - 1, nb, 0, 0)
    ELSE uninitialized_copy_n(m, v.buffer, 0, v.size - 1, nb, 0, 0)

\* Vector::Reserve: the relocation of the elements into new_data
Relocate(m, v, nb) ==
    IF RelocateByMove(m.t)
    THEN uninitialized_move_n(m, v.buffer, 0, v.size, nb, 0, 0)
    ELSE uninitialized_copy_n(m, v.buffer, 0, v.size, nb, 0, 0)

\* Mutant: when the allocation fails the elements are destroyed.
Reserve_ClearOnFail(m, v, new_capacity) ==
    IF new_capacity <= v.capacity THEN Result(m, v, -1)
    ELSE Then(Allocate(m, new_capacity), LAMBDA a :
         IF Thrown(a.m)
         THEN Result(destroy_n(a.m, v.buffer, 0, v.size), [v EXCEPT !.size = 0], -1)
         ELSE Then(Relocate(a.m, v, a.p), LAMBDA m1 :
              IF Thrown(m1) THEN Result(Deallocate(m1, a.p), v, -1)
              ELSE Result(Deallocate(destroy_n(m1, v.buffer, 0, v.size), v.buffer),
                          [v EXCEPT !.buffer = a.p, !.capacity = new_capacity], -1)))

\* Vector::Reserve; new_data is destroyed at the end of the scope, on a
\* throw too.
Reserve(m, v, new_capacity) ==
    IF new_capacity <= v.capacity THEN Result(m, v, -1)
    ELSE Then(Allocate(m, new_capacity), LAMBDA a :
         IF Thrown(a.m) THEN Result(a.m, v, -1)
         ELSE Then(Relocate(a.m, v, a.p), LAMBDA m1 :
              IF Thrown(m1) THEN Result(Deallocate(m1, a.p), v, -1)
              ELSE Result(Deallocate(destroy_n(m1, v.buffer, 0, v.size), v.buffer),
                          [v EXCEPT !.buffer = a.p, !.capacity = new_capacity], -1)))

\* Mutant: size_ is written before the new elements are constructed.
Resize_SizeFirst(m, v, new_size) ==
    IF new_size > v.size
    THEN Then(Reserve(m, v, new_size), LAMBDA r :
         IF Thrown(r.m) THEN r
         ELSE Result(uninitialized_value_construct_n(r.m, r.v.buffer, v.size,
                                                     new_size - v.size, 0),
                     [r.v EXCEPT !.size = new_size], -1))
    ELSE Result(destroy_n(m, v.buffer, new_size, v.size - new_size),
                [v EXCEPT !.size = new_size], -1)

\* Vector::Resize
Resize(m, v, new_size) ==
    IF new_size > v.size
    THEN Then(Reserve(m, v, new_size), LAMBDA r :
         IF Thrown(r.m) THEN r
         ELSE Then(uninitialized_value_construct_n(r.m, r.v.buffer, v.size,
                                                   new_size - v.size, 0), LAMBDA m1 :
              IF Thrown(m1) THEN Result(m1, r.v, -1)
              ELSE Result(m1, [r.v EXCEPT !.size = new_size], -1)))
    ELSE Result(destroy_n(m, v.buffer, new_size, v.size - new_size),
                [v EXCEPT !.size = new_size], -1)

\* Mutant: the new block is no larger than the old one.
NewCapacity_NoGrowth(size) == IF size = 0 THEN 1 ELSE size

\* Mutant: the new block is one slot larger than the old one.
NewCapacity_PlusOne(size) == size + 1

\* size_ == 0 ? 1 : size_ * 2
NewCapacity(size) == IF size = 0 THEN 1 ELSE size * 2

\* Vector::Emplace, the move branch of the reallocation
RelocateAroundByMove(m, v, position, nb) ==
    Then(uninitialized_move_n(m, v.buffer, 0, position, nb, 0, 0), LAMBDA m1 :
         IF Thrown(m1) THEN m1
         ELSE uninitialized_move_n(m1, v.buffer, position, v.size - position,
                                   nb, position + 1, 0))

\* Vector::Emplace, the body of the try block of the copy branch
CopyAround(m, v, position, nb) ==
    Then(uninitialized_copy_n(m, v.buffer, 0, position, nb, 0, 0), LAMBDA m1 :
         IF Thrown(m1) THEN m1
         ELSE uninitialized_copy_n(m1, v.buffer, position, v.size - position,
                                   nb, position + 1, 0))

\* Mutant: the copy branch without its try and catch.
RelocateAroundByCopy_NoCatch(m, v, position, nb) == CopyAround(m, v, position, nb)

\* Vector::Emplace, the copy branch:
\* try { ... } catch (...) { std::destroy_n(new_data + position, 1); throw; }
RelocateAroundByCopy(m, v, position, nb) ==
    Then(CopyAround(m, v, position, nb), LAMBDA m1 :
         IF Thrown(m1) THEN destroy_n(m1, nb, position, 1) ELSE m1)

\* Vector::Emplace, the branch size_ == Capacity()
EmplaceRealloc(m, v, position, arg) ==
    Then(Allocate(m, NewCapacity(v.size)), LAMBDA a :
    IF Thrown(a.m) THEN Result(a.m, v, -1)
    ELSE Then(ConstructFromArg(a.m, a.p, position, arg, v.buffer), LAMBDA m1 :
         IF Thrown(m1) THEN Result(Deallocate(m1, a.p), v, -1)
         ELSE Then(IF RelocateByMove(m.t)
                   THEN RelocateAroundByMove(m1, v, position, a.p)
                   ELSE RelocateAroundByCopy(m1, v, position, a.p), LAMBDA m2 :
              IF Thrown(m2) THEN Result(Deallocate(m2, a.p), v, -1)
              ELSE Result(Deallocate(destroy_n(m2, v.buffer, 0, v.size), v.buffer),
                          [buffer |-> a.p, capacity |-> NewCapacity(v.size),
                           size |-> v.size + 1],
                          position))))

\* std::move_backward(begin() + position, end(), end() + 1)
ShiftRight(m, v, position) == move_backward(m, v.buffer, position, v.size, v.size + 1)

\* Mutant: std::destroy_at(begin() + position) is left out.
MakeRoom_NoDestroy(m, v, position) ==
    Then(MoveConstruct(m, v.buffer, v.size, v.buffer, v.size - 1), LAMBDA m1 :
         IF Thrown(m1) THEN m1
         ELSE Then(ShiftRight(m1, v, position), LAMBDA m2 :
              IF Thrown(m2) THEN DestroyAt(m2, v.buffer, v.size) ELSE m2))

\* Vector::Emplace, the branch size_ < Capacity(): the block if (size_ != 0)
MakeRoom(m, v, position) ==
    Then(MoveConstruct(m, v.buffer, v.size, v.buffer, v.size - 1), LAMBDA m1 :
         IF Thrown(m1) THEN m1
         ELSE Then(ShiftRight(m1, v, position), LAMBDA m2 :
              IF Thrown(m2) THEN DestroyAt(m2, v.buffer, v.size)
              ELSE DestroyAt(m2, v.buffer, position)))

\* Vector::Emplace, the branch size_ < Capacity()
EmplaceInPlace(m, v, position, arg) ==
    Then(IF v.size # 0 THEN MakeRoom(m, v, position) ELSE m, LAMBDA m1 :
         IF Thrown(m1) THEN Result(m1, v, -1)
         ELSE Then(ConstructFromArg(m1, v.buffer, position, arg, v.buffer), LAMBDA m2 :
              IF Thrown(m2) THEN Result(m2, v, -1)
              ELSE Result(m2, [v EXCEPT !.size = v.size + 1], position)))

\* Mutant: the array grows one insertion early.
IsFull_Early(v) == v.size + 1 >= v.capacity

\* size_ == Capacity()
IsFull(v) == v.size = v.capacity

\* Vector::Emplace
Emplace(m, v, position, arg) ==
    IF IsFull(v) THEN EmplaceRealloc(m, v, position, arg)
    ELSE EmplaceInPlace(m, v, position, arg)

\* Vector::EmplaceBack; the result is the index of the element whose
\* reference is returned.
EmplaceBack(m, v, arg) ==
    IF IsFull(v)
    THEN Then(Emplace(m, v, v.size, arg), LAMBDA r :
              IF Thrown(r.m) THEN r ELSE Result(r.m, r.v, r.v.size - 1))
    ELSE Then(ConstructFromArg(m, v.buffer, v.size, arg, v.buffer), LAMBDA m1 :
              IF Thrown(m1) THEN Result(m1, v, -1)
              ELSE Result(m1, [v EXCEPT !.size = v.size + 1], v.size))

\* Vector::PushBack
PushBack(m, v, arg) == EmplaceBack(m, v, arg)

\* Vector::Insert
Insert(m, v, position, arg) == Emplace(m, v, position, arg)

\* Vector::PopBack
PopBack(m, v) ==
    IF v.size > 0
    THEN Result(DestroyAt(m, v.buffer, v.size - 1), [v EXCEPT !.size = v.size - 1], -1)
    ELSE Result(m, v, -1)

\* Mutant: the elements after position are not shifted.
Erase_NoShift(m, v, position) ==
    Result(DestroyAt(m, v.buffer, v.size - 1), [v EXCEPT !.size = v.size - 1], position)

\* Vector::Erase
Erase(m, v, position) ==
    Then(move_forward(m, v.buffer, position + 1, v.size, position), LAMBDA m1 :
         IF Thrown(m1) THEN Result(m1, v, -1)
         ELSE Result(DestroyAt(m1, v.buffer, v.size - 1),
                     [v EXCEPT !.size = v.size - 1], position))

\* v[index] = val through Vector::operator[]; assert(index < size_)
Write(m, v, index, val) ==
    Then(Tick(m, "assign", index), LAMBDA m1 :
         IF Thrown(m1) THEN Result(m1, v, -1)
         ELSE Result(Poke(Flag(m1, ~IsLive(m1, v.buffer, index)), v.buffer, index, val),
                     v, index))

\* Vector::Vector(size_t); ret = 1 when the object is constructed, 0 when
\* the constructor threw (the member data_ is then destroyed).
VectorSized(m, size) ==
    Then(Allocate(m, size), LAMBDA a :
    IF Thrown(a.m) THEN Result(a.m, EmptyVector, 0)
    ELSE Then(uninitialized_value_construct_n(a.m, a.p, 0, size, 0), LAMBDA m1 :
         IF Thrown(m1) THEN Result(Deallocate(m1, a.p), EmptyVector, 0)
         ELSE Result(m1, [buffer |-> a.p, capacity |-> size, size |-> size], 1)))

\* Mutant: the copy shares the block of the original.
VectorCopy_Shallow(m, other) == Result(m, other, 1)

\* Vector::Vector(const Vector&)
VectorCopy(m, other) ==
    Then(Allocate(m, other.size), LAMBDA a :
    IF Thrown(a.m) THEN Result(a.m, EmptyVector, 0)
    ELSE Then(uninitialized_copy_n(a.m, other.buffer, 0, other.size, a.p, 0, 0),
              LAMBDA m1 :
         IF Thrown(m1) THEN Result(Deallocate(m1, a.p), EmptyVector, 0)
         ELSE Result(m1, [buffer |-> a.p, capacity |-> other.size,
                          size |-> other.size], 1)))

\* Vector::~Vector followed by RawMemory::~RawMemory of data_
Destructor(m, v) == Deallocate(destroy_n(m, v.buffer, 0, v.size), v.buffer)

\* Vector::ResizeToSmallerRhs
ResizeToSmallerRhs(m, v, rhs) ==
    Then(copy_n(m, rhs.buffer, Min(v.size, rhs.size), v.buffer, 0), LAMBDA m1 :
    IF Thrown(m1) THEN Result(m1, v, -1)
    ELSE Then(IF v.size > rhs.size
              THEN destroy_n(m1, v.buffer, rhs.size, v.size - rhs.size)
              ELSE uninitialized_copy_n(m1, rhs.buffer, v.size, rhs.size - v.size,
                                        v.buffer, v.size, 0), LAMBDA m2 :
         IF Thrown(m2) THEN Result(m2, v, -1)
         ELSE Result(m2, [v EXCEPT !.size = rhs.size], -1)))

\* Mutant: the assignment always goes through a copy of rhs.
CopyAssignment_AlwaysCopy(m, v, rhs) ==
    Then(VectorCopy(m, rhs), LAMBDA c :
         IF Thrown(c.m) THEN Result(c.m, v, -1)
         ELSE Result(Destructor(c.m, v), c.v, -1))

\* Mutant: the old elements and block are given up before rhs is copied.
CopyAssignment_ReleaseFirst(m, v, rhs) ==
    IF rhs.size > v.capacity
    THEN Then(VectorCopy(Destructor(m, v), rhs), LAMBDA c :
              IF Thrown(c.m) THEN Result(c.m, EmptyVector, -1)
              ELSE Result(c.m, c.v, -1))
    ELSE ResizeToSmallerRhs(m, v, rhs)

\* Vector::operator=(const Vector&) for this != &rhs: the copy is swapped
\* in and the copy, now holding the old elements, is destroyed.
CopyAssignment(m, v, rhs) ==
    IF rhs.size > v.capacity
    THEN Then(VectorCopy(m, rhs), LAMBDA c :
              IF Thrown(c.m) THEN Result(c.m, v, -1)
              ELSE Result(Destructor(c.m, v), c.v, -1))
    ELSE ResizeToSmallerRhs(m, v, rhs)

\* data_ of a Vector
Data(v) == [buffer |-> v.buffer, capacity |-> v.capacity]

\* Vector::Swap, as the pair (this, other) after the call
Swap(v, o) ==
    Then(RawMemorySwap(Data(v), Data(o)), LAMBDA d :
         [this  |-> [buffer |-> d.this.buffer, capacity |-> d.this.capacity,
                     size |-> o.size],
          other |-> [buffer |-> d.other.buffer, capacity |-> d.other.capacity,
                     size |-> v.size]])

\* Mutant: the source keeps its members.
VectorMove_KeepSource(other) == [this |-> other, other |-> other]

\* Vector::Vector(Vector&&): the members are default-initialized, then Swap(other)
VectorMove(other) == Swap(EmptyVector, other)

\* Vector::operator=(Vector&&) for this != &rhs
MoveAssignment(v, rhs) == Swap(v, rhs)

\* --------------------------------------------------------------- state
\* elemType : the element type T of the instantiation
\* heap     : the blocks of raw memory
\* vec      : the two Vector objects a and b: whether the object is
\*            constructed, and its members
\* raw      : the two RawMemory objects a and b that the caller owns
\*            directly: whether the object is constructed, and its members
\* last     : the call the caller has just made and not yet moved on from:
\*            its arguments (y: the other array of a call that takes
\*            one), the array before it, what it threw and
\*            returned, and the flags of the machine; NoCall between calls
\* reserved : history of the last successful Reserve(n) on a that only
\*            insertions followed (kept when `on`): n, the block and the
\*            capacity the array had right after it, and the number of
\*            insertions since; n = -1 when there is none
Names == {"a", "b"}

Dead == [alive |-> FALSE, v |-> EmptyVector]

DeadRaw == [alive |-> FALSE, d |-> EmptyRawMemory]

NoCall ==
    [op |-> "none", x |-> "a", y |-> "a", pre |-> <<>>, preCap |-> 0, preBuf |-> Null,
     preOk |-> TRUE, oPre |-> <<>>, oCap |-> 0, oBuf |-> Null, oOk |-> TRUE,
     a1 |-> -1, a2 |-> -1, exc |-> "none", excIdx |-> -1,
     ub |-> FALSE, leak |-> FALSE, dfree |-> FALSE, ret |-> -1]

\* The record of a call op(a1, a2) on vector x that ended in machine m.
Call(op, x, a1, a2, m, ret) ==
    [NoCall EXCEPT !.op = op, !.x = x, !.y = x,
                   !.pre = Contents(heap, vec[x].v),
                   !.preCap = vec[x].v.capacity,
                   !.preBuf = vec[x].v.buffer,
                   !.preOk = WellFormed(heap, vec[x].v),
                   !.a1 = a1, !.a2 = a2,
                   !.exc = m.exc, !.excIdx = m.excIdx,
                   !.ub = m.ub, !.leak = m.leak, !.dfree = m.dfree, !.ret = ret]

\* The record of a call on vector x that takes the other vector y.
Call2(op, x, y, m, ret) ==
    [Call(op, x, -1, -1, m, ret) EXCEPT
                   !.y = y,
                   !.oPre = Contents(heap, vec[y].v),
                   !.oCap = vec[y].v.capacity,
                   !.oBuf = vec[y].v.buffer,
                   !.oOk = WellFormed(heap, vec[y].v)]

Machine(fault) == NewMachine(elemType, heap, fault)

\* The faults tried on a call whose run without a fault ends in m: each
\* operation of the run that may throw, or none at all.
FaultsOf(faults, m) == IF faults THEN 0 .. ThrowPoints(m) ELSE {0}

\* The caller is between two calls.
Idle == last.op = "none"

NoReserve(on) == [on |-> on, n |-> -1, buf |-> Null, cap |-> 0, cnt |-> 0]

\* The history after the call rec on x that left x as v.
Track(rec, x, v) ==
    IF ~reserved.on \/ x # "a" THEN reserved
    ELSE IF rec.op = "Reserve" /\ rec.exc = "none"
         THEN [on |-> TRUE, n |-> rec.a1, buf |-> v.buffer, cap |-> v.capacity, cnt |-> 0]
    ELSE IF rec.op \in {"PushBack", "Insert"} /\ reserved.n >= 0
         THEN [reserved EXCEPT !.cnt = IF rec.exc = "none" THEN @ + 1 ELSE @]
    ELSE NoReserve(TRUE)

InitWith(on) ==
    /\ elemType \in ElemTypes
    /\ heap = [b \in Blocks |-> FreeBlock]
    /\ vec = [x \in Names |-> IF x = "a" THEN [alive |-> TRUE, v |-> EmptyVector] ELSE Dead]
    /\ raw = [x \in Names |-> DeadRaw]
    /\ last = NoCall
    /\ reserved = NoReserve(on)

\* Vector<T> a; and b not yet declared
Init == InitWith(FALSE)

\* The call rec on x returned r (a Result).
Returns(x, r, rec) ==
    /\ heap' = r.m.heap
    /\ vec' = [vec EXCEPT ![x].v = r.v]
    /\ last' = rec
    /\ reserved' = Track(rec, x, r.v)
    /\ UNCHANGED <<elemType, raw>>

\* The constructor call rec of x ended as r: x is constructed unless it threw.
Constructs(x, r, rec) ==
    /\ heap' = r.m.heap
    /\ vec' = [vec EXCEPT ![x] = [alive |-> r.ret = 1, v |-> r.v]]
    /\ last' = rec
    /\ reserved' = Track(rec, x, r.v)
    /\ UNCHANGED <<elemType, raw>>

\* The call rec on x with the other vector y left them as s.this and s.other.
Exchanges(x, y, s, rec) ==
    /\ vec' = [vec EXCEPT ![x] = [alive |-> TRUE, v |-> s.this], ![y].v = s.other]
    /\ last' = rec
    /\ reserved' = Track(rec, x, s.this)
    /\ UNCHANGED <<elemType, heap, raw>>

\* Vector<T> x(n);
CallConstruct(x, n, faults) ==
    /\ Idle
    /\ ~vec[x].alive
    /\ \E fault \in FaultsOf(faults, VectorSized(Machine(NoFault), n).m) :
         \E r \in {VectorSized(Machine(fault), n)} :
            Constructs(x, r, Call("Vector", x, n, -1, r.m, r.ret))

\* x goes out of scope
CallDestructor(x) ==
    /\ Idle
    /\ vec[x].alive
    /\ \E m \in {Destructor(Machine(0), vec[x].v)} :
          /\ heap' = m.heap
          /\ vec' = [vec EXCEPT ![x] = Dead]
          /\ last' = Call("~Vector", x, -1, -1, m, -1)
          /\ reserved' = Track(last', x, EmptyVector)
          /\ UNCHANGED <<elemType, raw>>

\* x.Reserve(n)
CallReserve(x, n, faults) ==
    /\ Idle
    /\ vec[x].alive
    /\ \E fault \in FaultsOf(faults, Reserve(Machine(NoFault), vec[x].v, n).m) :
         \E r \in {Reserve(Machine(fault), vec[x].v, n)} :
            Returns(x, r, Call("Reserve", x, n, -1, r.m, r.ret))

\* x.Resize(n)
CallResize(x, n, faults) ==
    /\ Idle
    /\ vec[x].alive
    /\ \E fault \in FaultsOf(faults, Resize(Machine(NoFault), vec[x].v, n).m) :
         \E r \in {Resize(Machine(fault), vec[x].v, n)} :
            Returns(x, r, Call("Resize", x, n, -1, r.m, r.ret))

\* The capacity stays within lim when x grows by one element.
GrowthWithin(x, lim) ==
    vec[x].v.size = vec[x].v.capacity => NewCapacity(vec[x].v.size) <= lim

\* x.PushBack(val) / x.EmplaceBack(val)
CallPushBack(x, val, lim, faults) ==
    /\ Idle
    /\ vec[x].alive
    /\ GrowthWithin(x, lim)
    /\ \E fault \in FaultsOf(faults, PushBack(Machine(NoFault), vec[x].v, ArgVal(val)).m) :
         \E r \in {PushBack(Machine(fault), vec[x].v, ArgVal(val))} :
            Returns(x, r, Call("PushBack", x, -1, val, r.m, r.ret))

\* x.PopBack()
CallPopBack(x) ==
    /\ Idle
    /\ vec[x].alive
    /\ \E r \in {PopBack(Machine(0), vec[x].v)} :
          Returns(x, r, Call("PopBack", x, -1, -1, r.m, r.ret))

\* x.Insert(x.begin() + position, val) / x.Emplace(x.begin() + position, val);
\* assert(pos >= begin() && pos <= end())
CallInsert(x, position, val, lim, faults) ==
    /\ Idle
    /\ vec[x].alive
    /\ position >= 0
    /\ position <= vec[x].v.size
    /\ GrowthWithin(x, lim)
    /\ \E fault \in FaultsOf(faults, Insert(Machine(NoFault), vec[x].v, position,
                                            ArgVal(val)).m) :
         \E r \in {Insert(Machine(fault), vec[x].v, position, ArgVal(val))} :
            Returns(x, r, Call("Insert", x, position, val, r.m, r.ret))

\* x.Insert(x.begin() + position, x[index]): the value is a reference to
\* an element of x itself;  assert(index < size_)
CallInsertSelf(x, position, index, lim, faults) ==
    /\ Idle
    /\ vec[x].alive
    /\ position >= 0
    /\ position <= vec[x].v.size
    /\ index >= 0
    /\ index < vec[x].v.size
    /\ GrowthWithin(x, lim)
    /\ \E fault \in FaultsOf(faults, Insert(Machine(NoFault), vec[x].v, position,
                                            ArgRef(index)).m) :
         \E r \in {Insert(Machine(fault), vec[x].v, position, ArgRef(index))} :
            Returns(x, r, Call("Insert(self)", x, position, index, r.m, r.ret))

\* x.Erase(x.begin() + position); assert(pos >= begin() && pos < end())
CallErase(x, position, faults) ==
    /\ Idle
    /\ vec[x].alive
    /\ position >= 0
    /\ position < vec[x].v.size
    /\ \E fault \in FaultsOf(faults, Erase(Machine(NoFault), vec[x].v, position).m) :
         \E r \in {Erase(Machine(fault), vec[x].v, position)} :
            Returns(x, r, Call("Erase", x, position, -1, r.m, r.ret))

\* x[index] = val;  assert(index < size_)
CallWrite(x, index, val, faults) ==
    /\ Idle
    /\ vec[x].alive
    /\ index >= 0
    /\ index < vec[x].v.size
    /\ \E fault \in FaultsOf(faults, Write(Machine(NoFault), vec[x].v, index, val).m) :
         \E r \in {Write(Machine(fault), vec[x].v, index, val)} :
            Returns(x, r, Call("operator[]", x, index, val, r.m, r.ret))

\* Vector<T> x(y);
CallCopyConstruct(x, y, faults) ==
    /\ Idle
    /\ x # y
    /\ ~vec[x].alive
    /\ vec[y].alive
    /\ \E fault \in FaultsOf(faults, VectorCopy(Machine(NoFault), vec[y].v).m) :
         \E r \in {VectorCopy(Machine(fault), vec[y].v)} :
            Constructs(x, r, Call2("Vector(const&)", x, y, r.m, r.ret))

\* Vector<T> x(std::move(y));
CallMoveConstruct(x, y) ==
    /\ Idle
    /\ x # y
    /\ ~vec[x].alive
    /\ vec[y].alive
    /\ Exchanges(x, y, VectorMove(vec[y].v), Call2("Vector(&&)", x, y, Machine(0), 1))

\* x = y;  if (this != &rhs)
CallCopyAssign(x, y, faults) ==
    /\ Idle
    /\ vec[x].alive
    /\ vec[y].alive
    /\ IF x = y
       THEN Returns(x, Result(Machine(0), vec[x].v, -1),
                    Call2("operator=(const&)", x, y, Machine(0), -1))
       ELSE \E fault \in FaultsOf(faults, CopyAssignment(Machine(NoFault), vec[x].v,
                                                         vec[y].v).m) :
              \E r \in {CopyAssignment(Machine(fault), vec[x].v, vec[y].v)} :
                 Returns(x, r, Call2("operator=(const&)", x, y, r.m, r.ret))

\* x = std::move(y);  if (this != &rhs)
CallMoveAssign(x, y) ==
    /\ Idle
    /\ vec[x].alive
    /\ vec[y].alive
    /\ IF x = y
       THEN Returns(x, Result(Machine(0), vec[x].v, -1),
                    Call2("operator=(&&)", x, y, Machine(0), -1))
       ELSE Exchanges(x, y, MoveAssignment(vec[x].v, vec[y].v),
                      Call2("operator=(&&)", x, y, Machine(0), -1))

\* x.Swap(y)
CallSwap(x, y) ==
    /\ Idle
    /\ x # y
    /\ vec[x].alive
    /\ vec[y].alive
    /\ Exchanges(x, y, Swap(vec[x].v, vec[y].v), Call2("Swap", x, y, Machine(0), -1))

\* The record of a call op on the RawMemory x that takes the RawMemory y
\* (y = x when it takes none) and ended in machine m.
RawCall(op, x, y, a1, m, ret) ==
    [NoCall EXCEPT !.op = op, !.x = x, !.y = y,
                   !.preCap = raw[x].d.capacity,
                   !.preBuf = raw[x].d.buffer,
                   !.oCap = raw[y].d.capacity,
                   !.oBuf = raw[y].d.buffer,
                   !.a1 = a1,
                   !.exc = m.exc, !.excIdx = m.excIdx,
                   !.ub = m.ub, !.leak = m.leak, !.dfree = m.dfree, !.ret = ret]

\* RawMemory<T> x(n);
CallRawMemory(x, n, faults) ==
    /\ Idle
    /\ ~raw[x].alive
    /\ \E fault \in FaultsOf(faults, RawMemorySized(Machine(NoFault), n).m) :
         \E r \in {RawMemorySized(Machine(fault), n)} :
            /\ heap' = r.m.heap
            /\ raw' = [raw EXCEPT ![x] = [alive |-> r.ret = 1, d |-> r.d]]
            /\ last' = RawCall("RawMemory", x, x, n, r.m, r.ret)
            /\ UNCHANGED <<elemType, vec, reserved>>

\* the RawMemory x goes out of scope
CallRawMemoryDestructor(x) ==
    /\ Idle
    /\ raw[x].alive
    /\ \E m \in {RawMemoryDestructor(Machine(0), raw[x].d)} :
          /\ heap' = m.heap
          /\ raw' = [raw EXCEPT ![x] = DeadRaw]
          /\ last' = RawCall("~RawMemory", x, x, -1, m, -1)
          /\ UNCHANGED <<elemType, vec, reserved>>

\* RawMemory<T> x(std::move(y));
CallRawMemoryMove(x, y) ==
    /\ Idle
    /\ x # y
    /\ ~raw[x].alive
    /\ raw[y].alive
    /\ \E s \in {RawMemoryMove(raw[y].d)} :
          /\ raw' = [raw EXCEPT ![x] = [alive |-> TRUE, d |-> s.this], ![y].d = s.other]
          /\ last' = RawCall("RawMemory(&&)", x, y, -1, Machine(0), 1)
          /\ UNCHANGED <<elemType, heap, vec, reserved>>

\* x = std::move(y) on RawMemory objects;  if (this != &rhs)
CallRawMemoryMoveAssign(x, y) ==
    /\ Idle
    /\ raw[x].alive
    /\ raw[y].alive
    /\ IF x = y
       THEN /\ last' = RawCall("RawMemory::operator=(&&)", x, y, -1, Machine(0), -1)
            /\ UNCHANGED <<elemType, heap, vec, raw, reserved>>
       ELSE \E r \in {RawMemoryMoveAssignment(Machine(0), raw[x].d, raw[y].d)} :
               /\ heap' = r.m.heap
               /\ raw' = [raw EXCEPT ![x].d = r.s.this, ![y].d = r.s.other]
               /\ last' = RawCall("RawMemory::operator=(&&)", x, y, -1, r.m, -1)
               /\ UNCHANGED <<elemType, vec, reserved>>

\* x.Swap(y) on RawMemory objects
CallRawMemorySwap(x, y) ==
    /\ Idle
    /\ raw[x].alive
    /\ raw[y].alive
    /\ \E s \in {RawMemorySwap(raw[x].d, raw[y].d)} :
          /\ raw' = [raw EXCEPT ![x].d = s.this, ![y].d = s.other]
          /\ last' = RawCall("RawMemory::Swap", x, y, -1, Machine(0), -1)
          /\ UNCHANGED <<elemType, heap, vec, reserved>>

\* The caller has seen the outcome of its call (caught what it threw) and
\* goes on to its next call, unless the behaviour has become undefined.
Continue ==
    /\ ~Idle
    /\ ~last.ub
    /\ ~last.dfree
    /\ last' = NoCall
    /\ UNCHANGED <<elemType, heap, vec, raw, reserved>>

\* The operations on one array, any of which may throw.
Next ==
    \/ \E n \in 0 .. MaxCap : CallConstruct("a", n, TRUE)
    \/ CallDestructor("a")
    \/ \E n \in 0 .. MaxCap : CallReserve("a", n, TRUE)
    \/ \E n \in 0 .. MaxCap : CallResize("a", n, TRUE)
    \/ \E val \in Val : CallPushBack("a", val, MaxCap, TRUE)
    \/ CallPopBack("a")
    \/ \E p \in 0 .. MaxCap, val \in Val : CallInsert("a", p, val, MaxCap, TRUE)
    \/ \E p \in 0 .. MaxCap : CallErase("a", p, TRUE)
    \/ Continue

Spec == Init /\ [][Next]_vars

\* Every operation on two arrays, none of which throws.
NextNoFail ==
    \/ \E x \in Names, n \in 0 .. PairCap : CallConstruct(x, n, FALSE)
    \/ \E x \in Names : CallDestructor(x)
    \/ \E x \in Names, n \in 0 .. PairCap : CallReserve(x, n, FALSE)
    \/ \E x \in Names, n \in 0 .. PairCap : CallResize(x, n, FALSE)
    \/ \E x \in Names, val \in 1 .. PairVal : CallPushBack(x, val, PairCap, FALSE)
    \/ \E x \in Names : CallPopBack(x)
    \/ \E x \in Names, p \in 0 .. PairCap, val \in 1 .. PairVal :
           CallInsert(x, p, val, PairCap, FALSE)
    \/ \E x \in Names, p \in 0 .. PairCap : CallErase(x, p, FALSE)
    \/ \E x \in Names, y \in Names : CallCopyConstruct(x, y, FALSE)
    \/ \E x \in Names, y \in Names : CallMoveConstruct(x, y)
    \/ \E x \in Names, y \in Names : CallCopyAssign(x, y, FALSE)
    \/ \E x \in Names, y \in Names : CallMoveAssign(x, y)
    \/ \E x \in Names, y \in Names : CallSwap(x, y)
    \/ Continue

SpecNoFail == Init /\ [][NextNoFail]_vars

\* The array a is built, b is copy-constructed from it, and from then on
\* until b is destroyed only b is operated on.
NextCopy ==
    \/ /\ ~vec["b"].alive
       /\ \/ \E n \in 0 .. PairCap : CallReserve("a", n, TRUE)
          \/ \E n \in 0 .. PairCap : CallResize("a", n, TRUE)
          \/ \E val \in 1 .. PairVal : CallPushBack("a", val, PairCap, TRUE)
          \/ CallPopBack("a")
          \/ CallCopyConstruct("b", "a", TRUE)
    \/ /\ vec["b"].alive
       /\ \/ \E i \in 0 .. PairCap, val \in 1 .. PairVal : CallWrite("b", i, val, TRUE)
          \/ \E val \in 1 .. PairVal : CallPushBack("b", val, PairCap, TRUE)
          \/ CallPopBack("b")
          \/ \E p \in 0 .. PairCap, val \in 1 .. PairVal :
                 CallInsert("b", p, val, PairCap, TRUE)
          \/ \E p \in 0 .. PairCap : CallErase("b", p, TRUE)
          \/ \E n \in 0 .. PairCap : CallResize("b", n, TRUE)
          \/ \E n \in 0 .. PairCap : CallReserve("b", n, TRUE)
          \/ \E y \in Names : CallCopyAssign("b", y, TRUE)
          \/ CallMoveAssign("b", "b")
          \/ CallDestructor("b")
    \/ Continue

SpecCopy == Init /\ [][NextCopy]_vars

\* The array a is built and b is move-constructed from it, again after b
\* has been destroyed.
NextMove ==
    \/ \E n \in 0 .. PairCap : CallReserve("a", n, TRUE)
    \/ \E n \in 0 .. PairCap : CallResize("a", n, TRUE)
    \/ \E val \in 1 .. PairVal : CallPushBack("a", val, PairCap, TRUE)
    \/ CallPopBack("a")
    \/ CallMoveConstruct("b", "a")
    \/ CallDestructor("b")
    \/ Continue

SpecMove == Init /\ [][NextMove]_vars

\* PushBack and Erase on one array.
NextErase ==
    \/ \E val \in 1 .. EraseLen : CallPushBack("a", val, EraseLen, TRUE)
    \/ \E p \in 0 .. EraseLen : CallErase("a", p, TRUE)
    \/ Continue

SpecErase == Init /\ [][NextErase]_vars

\* Two arrays are built and copy-assigned to each other.
NextAssign ==
    \/ \E n \in 0 .. PairCap : CallConstruct("b", n, TRUE)
    \/ \E x \in Names, n \in 0 .. PairCap : CallReserve(x, n, TRUE)
    \/ \E x \in Names, val \in 1 .. PairVal : CallPushBack(x, val, PairCap, TRUE)
    \/ \E x \in Names : CallPopBack(x)
    \/ \E x \in Names, y \in Names : CallCopyAssign(x, y, TRUE)
    \/ Continue

SpecAssign == Init /\ [][NextAssign]_vars

\* RawMemory objects are constructed, moved, swapped and destroyed.
NextRaw ==
    \/ \E x \in Names, n \in 0 .. MaxCap : CallRawMemory(x, n, TRUE)
    \/ \E x \in Names : CallRawMemoryDestructor(x)
    \/ \E x \in Names, y \in Names : CallRawMemoryMove(x, y)
    \/ \E x \in Names, y \in Names : CallRawMemoryMoveAssign(x, y)
    \/ \E x \in Names, y \in Names : CallRawMemorySwap(x, y)
    \/ Continue

SpecRaw == Init /\ [][NextRaw]_vars

\* Every operation that may allocate, on the array a; b is the array
\* assigned to it.
NextAlloc ==
    \/ \E n \in 0 .. PairCap : CallConstruct("b", n, TRUE)
    \/ CallDestructor("b")
    \/ \E n \in 0 .. PairCap : CallReserve("a", n, TRUE)
    \/ \E n \in 0 .. PairCap : CallResize("a", n, TRUE)
    \/ \E val \in 1 .. PairVal : CallPushBack("a", val, PairCap, TRUE)
    \/ \E p \in 0 .. PairCap, val \in 1 .. PairVal : CallInsert("a", p, val, PairCap, TRUE)
    \/ CallPopBack("a")
    \/ CallCopyAssign("a", "b", TRUE)
    \/ Continue

SpecAlloc == Init /\ [][NextAlloc]_vars

\* An array is built and elements of it are inserted into it.
NextSelf ==
    \/ \E n \in 0 .. EraseLen : CallReserve("a", n, TRUE)
    \/ \E val \in 1 .. EraseLen : CallPushBack("a", val, EraseLen, TRUE)
    \/ CallPopBack("a")
    \/ \E p \in 0 .. EraseLen, i \in 0 .. EraseLen : CallInsertSelf("a", p, i, EraseLen, TRUE)
    \/ Continue

SpecSelf == Init /\ [][NextSelf]_vars

\* PushBack after PushBack on an array that starts empty.
NextPush ==
    \/ /\ vec["a"].v.size < PushLen
       /\ \E val \in 1 .. PushLen : CallPushBack("a", val, PushCap, TRUE)
    \/ Continue

SpecPush == Init /\ [][NextPush]_vars

\* Reserve and the insertions that follow it, with the history kept.
InitReserve == InitWith(TRUE)

NextReserve ==
    \/ \E n \in 0 .. ReserveCap : CallReserve("a", n, TRUE)
    \/ \E val \in 1 .. PairVal : CallPushBack("a", val, ReserveCap, TRUE)
    \/ \E p \in 0 .. ReserveCap, val \in 1 .. PairVal :
           CallInsert("a", p, val, ReserveCap, TRUE)
    \/ CallPopBack("a")
    \/ Continue

SpecReserve == InitReserve /\ [][NextReserve]_vars

\* -------------------------------------------------------------- claims
\* The array a, and what the call recorded in `last` found and left.
A == vec["a"].v

PreSize == Len(last.pre)

\* The array the call was made on is as it was before the call.
Restored(x) ==
    /\ Contents(heap, vec[x].v) = last.pre
    /\ vec[x].v.size = PreSize
    /\ vec[x].v.capacity = last.preCap
    /\ vec[x].v.buffer = last.preBuf
    /\ WellFormed(heap, vec[x].v)

\* The call recorded in `last` violated no object lifetime and released
\* no block twice or with a live element in it.
CleanRun == ~last.ub /\ ~last.leak /\ ~last.dfree

\* T is copy constructible and its move constructor may throw: the
\* elements are relocated by copy.
CopyRelocated == is_copy_constructible(elemType) /\ ~is_nothrow_move_constructible(elemType)

\* C1: in executions in which nothing fails, after every operation exactly
\* the slots [0, size) of each array's block are live and the slots
\* [size, capacity) are uninitialized, and within every operation no slot
\* is constructed while live and none is destroyed, assigned to, read or
\* moved from while not live; no block is released with a live element in
\* it or twice.
C1_LiveSlotsExact ==
    /\ last.exc = "none"
    /\ CleanRun
    /\ \A x \in Names : vec[x].alive => WellFormed(heap, vec[x].v)

\* C1 witness: an in-place Insert before the end of a non-empty array.
C1_Witness ==
    /\ last.op = "Insert"
    /\ PreSize > 0
    /\ PreSize < last.preCap
    /\ last.a1 < PreSize
    /\ vec[last.x].v.size = PreSize + 1

\* C2: after every operation Size() <= Capacity(), and PopBack on an empty
\* array changes nothing.
C2_SizeWithinCapacity ==
    /\ vec["a"].alive => (0 <= A.size /\ A.size <= A.capacity)
    /\ (last.op = "PopBack" /\ last.pre = <<>> /\ last.preOk) => Restored("a")

\* C2 witness: PopBack was called on an empty array that owns a block.
C2_Witness ==
    /\ last.op = "PopBack"
    /\ last.pre = <<>>
    /\ last.preCap > 0

\* C3: when relocating an element throws during Reserve(n), n > Capacity(),
\* for a copy-relocated element type, then it is a copy that threw (no
\* element is moved from), the array's size, capacity, block and element
\* values are those before the call, every element copied into the new
\* block was destroyed before the block was released, and the new block
\* was released.
C3_ReserveStrongGuarantee ==
    ( /\ last.op = "Reserve"
      /\ CopyRelocated
      /\ last.preOk
      /\ last.a1 > last.preCap
      /\ last.exc \notin {"none", "alloc"} )
    => /\ last.exc = "copy"
       /\ Restored("a")
       /\ CleanRun
       /\ \A b \in Blocks : heap[b].alloc => b = last.preBuf

\* C3 witness: the copy of the second element threw, after the first was
\* copied into the new block.
C3_Witness ==
    /\ last.op = "Reserve"
    /\ CopyRelocated
    /\ last.exc = "copy"
    /\ last.excIdx >= 1
    /\ last.a1 > last.preCap

\* No block but the one the array had before the call is allocated: the
\* new block of the call has been released.
OnlyOldBlock == \A b \in Blocks : heap[b].alloc => b = last.preBuf

\* C4: when the copy of a prefix or suffix element throws in the
\* reallocating branch of Insert/Emplace, for a copy-relocated element type,
\* the new element and every element already copied into the new block are
\* destroyed before the new block is released, and the array is as before
\* the call.
C4_ReallocInsertCleansUp ==
    ( /\ last.op = "Insert"
      /\ CopyRelocated
      /\ last.preOk
      /\ PreSize = last.preCap
      /\ last.exc = "copy" )
    => /\ Restored("a")
       /\ CleanRun
       /\ OnlyOldBlock

\* C5: when the non-reallocating branch of Insert/Emplace throws, the size
\* is unchanged and exactly the slots [0, size) are live.
C5_InPlaceInsertBasicGuarantee ==
    ( /\ last.op = "Insert"
      /\ last.preOk
      /\ PreSize < last.preCap
      /\ last.exc # "none" )
    => /\ A.size = PreSize
       /\ A.capacity = last.preCap
       /\ WellFormed(heap, A)
       /\ CleanRun

\* C6: a PushBack/EmplaceBack that grows the array and fails, because the
\* construction of the new element or the copy of an existing element
\* throws, for a copy-relocated element type, leaves the array as before
\* the call and no element live in the discarded new block.
C6_GrowingPushBackStrongGuarantee ==
    ( /\ last.op = "PushBack"
      /\ CopyRelocated
      /\ last.preOk
      /\ PreSize = last.preCap
      /\ last.exc \in {"args", "copy"} )
    => /\ Restored("a")
       /\ CleanRun
       /\ OnlyOldBlock

\* C6 witness: the copy of the second element threw, after the new
\* element and the first element were constructed in the new block.
C6_Witness ==
    /\ last.op = "PushBack"
    /\ CopyRelocated
    /\ PreSize = last.preCap
    /\ last.exc = "copy"
    /\ last.excIdx >= 1

\* s with x inserted before its element p (from 0)
InsertAt(s, p, x) == SubSeq(s, 1, p) \o <<x>> \o SubSeq(s, p + 1, Len(s))

\* C7: a successful Insert(p, v) / Emplace(p, v) leaves the array holding
\* s[0..p) ++ [v] ++ s[p..size), with the size increased by 1, and returns
\* a handle to slot p, for every element type.
C7_InsertPlacesValue ==
    ( /\ last.op = "Insert"
      /\ last.preOk
      /\ last.exc = "none" )
    => /\ Contents(heap, A) = InsertAt(last.pre, last.a1, last.a2)
       /\ A.size = PreSize + 1
       /\ last.ret = last.a1

\* The array with contents s and capacity cap, alone in the heap.
HeapOf(s, cap) ==
    [b \in Blocks |->
        IF b = 1 /\ cap > 0
        THEN [alloc |-> TRUE,
              slots |-> [i \in 1 .. cap |-> IF i <= Len(s) THEN s[i] ELSE Uninit]]
        ELSE FreeBlock]

VectorOf(s, cap) ==
    [buffer |-> IF cap > 0 THEN 1 ELSE Null, capacity |-> cap, size |-> Len(s)]

\* PushBack(val) on the array with contents s and capacity cap
PushBackOn(s, cap, val) ==
    PushBack(NewMachine(elemType, HeapOf(s, cap), 0), VectorOf(s, cap), ArgVal(val))

\* C8: Insert(end(), v) leaves the array as PushBack(v) on the same array
\* does: the same value at every index, the same size, the same capacity.
C8_InsertAtEndIsPushBack ==
    ( /\ last.op = "Insert"
      /\ last.preOk
      /\ last.a1 = PreSize
      /\ last.exc = "none" )
    => Then(PushBackOn(last.pre, last.preCap, last.a2), LAMBDA r :
            /\ Contents(heap, A) = Contents(r.m.heap, r.v)
            /\ A.size = r.v.size
            /\ A.capacity = r.v.capacity)

Max(a, b) == IF a > b THEN a ELSE b

\* The capacity after n PushBacks into an empty array, when a full array
\* grows to max(1, 2 * capacity).
RECURSIVE CapacityAfterPushes(_)
CapacityAfterPushes(n) ==
    IF n = 0 THEN 0
    ELSE Then(CapacityAfterPushes(n - 1), LAMBDA c :
              IF n - 1 = c THEN Max(1, 2 * c) ELSE c)

\* The capacities after the first five PushBacks into an empty array.
ScenarioCapacities == <<1, 2, 4, 4, 8>>

\* C9: a successful PushBack/EmplaceBack on a full array makes the capacity
\* max(1, 2 * old capacity), on any other leaves it unchanged; it appends
\* the value, keeps the earlier elements and returns a reference to the new
\* last element.  Pushing into an empty array gives the capacities
\* 1, 2, 4, 4, 8, and pushing 1, 2, 3, 4, 5 the contents [1,2,3,4,5] with
\* size 5 and capacity 8.
C9_PushBackGrowth ==
    /\ ( /\ last.op = "PushBack"
         /\ last.preOk
         /\ last.exc = "none" )
       => /\ A.capacity = IF PreSize = last.preCap THEN Max(1, 2 * last.preCap)
                          ELSE last.preCap
          /\ Contents(heap, A) = Append(last.pre, last.a2)
          /\ A.size = PreSize + 1
          /\ last.ret = A.size - 1
    /\ A.capacity = CapacityAfterPushes(A.size)
    /\ \A k \in 1 .. 5 : A.size = k => A.capacity = ScenarioCapacities[k]

\* C9 witness: 5 has just been pushed after 1, 2, 3, 4 and the array grew
\* from capacity 4 to capacity 8.
C9_Witness ==
    /\ last.op = "PushBack"
    /\ last.a2 = 5
    /\ last.pre = <<1, 2, 3, 4>>
    /\ last.preCap = 4
    /\ Contents(heap, A) = <<1, 2, 3, 4, 5>>
    /\ A.capacity = 8

\* C10: after a successful Reserve(n), as long as only PushBack/EmplaceBack
\* and Insert/Emplace follow and the array holds at most n elements, the
\* capacity and the block are those the array had right after Reserve(n).
C10_NoReallocationAfterReserve ==
    ( /\ reserved.n >= 0
      /\ A.size <= reserved.n )
    => /\ A.capacity = reserved.cap
       /\ A.buffer = reserved.buf
       /\ A.capacity >= reserved.n

\* C10 witness: two insertions after Reserve(n) have filled the array to n
\* elements.
C10_Witness ==
    /\ reserved.n >= 2
    /\ reserved.cnt >= 2
    /\ A.size = reserved.n
    /\ last.op \in {"PushBack", "Insert"}
    /\ last.exc = "none"

\* C11: a successful Reserve(n) with n <= Capacity() changes nothing and
\* allocates nothing; with n > Capacity() it ends with Capacity() = n, the
\* size and every element value as before the call, every old element
\* destroyed exactly once, and the old block released exactly once, with
\* no live element in it, the array's new block being the only one left.
C11_ReserveFunctional ==
    ( /\ last.op = "Reserve"
      /\ last.preOk
      /\ last.exc = "none" )
    => /\ CleanRun
       /\ WellFormed(heap, A)
       /\ Contents(heap, A) = last.pre
       /\ A.size = PreSize
       /\ \A b \in Blocks : heap[b].alloc => b = A.buffer
       /\ IF last.a1 <= last.preCap
          THEN /\ A.capacity = last.preCap
               /\ A.buffer = last.preBuf
          ELSE /\ A.capacity = last.a1
               /\ A.buffer # last.preBuf
               /\ A.buffer \in Blocks

\* C11 witness: Reserve has moved two elements of a type whose move
\* empties its source into a larger block.
C11_Witness ==
    /\ last.op = "Reserve"
    /\ last.exc = "none"
    /\ elemType = "string"
    /\ PreSize >= 2
    /\ last.preBuf # Null
    /\ last.a1 > last.preCap
    /\ A.capacity = last.a1

B == vec["b"].v

\* A call has just been made on b, which is or has just become a copy of a.
MutatesCopy ==
    /\ last'.op # "none"
    /\ last'.x = "b"

\* The array a, its block included, is after the step as before it.
SourceUnchanged ==
    /\ vec'["a"] = vec["a"]
    /\ Contents(heap', vec'["a"].v) = Contents(heap, A)
    /\ A.buffer \in Blocks => heap'[A.buffer] = heap[A.buffer]

\* The copy constructor has made b of a.
CopyMade ==
    /\ Contents(heap', vec'["b"].v) = Contents(heap, A)
    /\ vec'["b"].v.size = A.size
    /\ vec'["b"].v.capacity = A.size
    /\ WellFormed(heap', vec'["b"].v)
    /\ vec'["b"].v.buffer = Null \/ vec'["b"].v.buffer # A.buffer
    /\ ~last'.ub /\ ~last'.leak /\ ~last'.dfree

C12_Step ==
    /\ ( /\ last'.op = "Vector(const&)"
         /\ last'.exc = "none"
         /\ WellFormed(heap, A) ) => CopyMade
    /\ MutatesCopy => SourceUnchanged

\* C12: copy-constructing b from a gives b the size and the element values
\* of a, capacity a.Size() and a block of its own, and leaves a unchanged;
\* no later call on b (element write, PushBack, PopBack, Insert, Erase,
\* Resize, Reserve, assignment, destruction), whether it returns or throws,
\* changes the size, the capacity, the block or an element value of a.
C12_CopyIsIndependent == [][C12_Step]_vars

\* C12 witness: b, a copy of a non-empty a, has since been changed and
\* holds other values than a.
C12_Witness ==
    /\ vec["b"].alive
    /\ last.x = "b"
    /\ last.op \in {"operator[]", "Insert", "Erase", "PushBack"}
    /\ last.exc = "none"
    /\ A.size >= 2
    /\ WellFormed(heap, A)
    /\ WellFormed(heap, B)
    /\ Contents(heap, B) # Contents(heap, A)

\* The step is the move construction of b from a.
MoveConstructs == last'.op = "Vector(&&)" /\ last'.x = "b"

C13_Step ==
    MoveConstructs
    => /\ vec'["b"].alive
       /\ vec'["b"].v = A
       /\ heap' = heap
       /\ vec'["a"].alive
       /\ vec'["a"].v = EmptyVector
       /\ last'.exc = "none"
       /\ ~last'.ub /\ ~last'.leak /\ ~last'.dfree

\* C13: move-constructing b from a gives b the block, the size and the
\* capacity a had, so its element values too, while the heap stays as it
\* is: nothing is allocated or released and no element is constructed,
\* copied, moved or destroyed; a is left with size 0, capacity 0 and no
\* block; the operation does not throw.
C13_MoveConstructTransfers == [][C13_Step]_vars

\* C13 witness: b has been move-constructed from a non-empty array with a
\* spare slot.
C13_Witness ==
    /\ last.op = "Vector(&&)"
    /\ Len(last.oPre) >= 1
    /\ last.oCap > Len(last.oPre)
    /\ last.oOk
    /\ Contents(heap, B) = last.oPre
    /\ B.buffer = last.oBuf
    /\ A = EmptyVector

\* s without its element p (from 0)
RemoveAt(s, p) == SubSeq(s, 1, p) \o SubSeq(s, p + 2, Len(s))

\* C14: a successful Erase(p), 0 <= p < size, leaves the array holding
\* s[0..p) ++ s[p+1..size) in the same block, with the size decreased by 1
\* and the capacity unchanged, has destroyed exactly the vacated last slot,
\* and returns a handle to index p.  Erase at 1 on [1,2,3,4] gives [1,3,4]
\* with size 3.
C14_EraseRemovesElement ==
    ( /\ last.op = "Erase"
      /\ last.preOk
      /\ last.exc = "none" )
    => /\ Contents(heap, A) = RemoveAt(last.pre, last.a1)
       /\ A.size = PreSize - 1
       /\ A.capacity = last.preCap
       /\ A.buffer = last.preBuf
       /\ WellFormed(heap, A)
       /\ CleanRun
       /\ last.ret = last.a1
       /\ (last.pre = <<1, 2, 3, 4>> /\ last.a1 = 1)
              => (Contents(heap, A) = <<1, 3, 4>> /\ A.size = 3)

\* C14 witness: Erase at position 1 on [1,2,3,4] of elements whose move
\* empties its source.
C14_Witness ==
    /\ last.op = "Erase"
    /\ last.exc = "none"
    /\ elemType = "string"
    /\ last.pre = <<1, 2, 3, 4>>
    /\ last.a1 = 1
    /\ Contents(heap, A) = <<1, 3, 4>>

\* The array the call recorded in `last` was made on, and the array it took.
This == vec[last.x].v
Other == vec[last.y].v

\* The array the call took is as it was before the call.
OtherUnchanged ==
    /\ Contents(heap, Other) = last.oPre
    /\ Other.capacity = last.oCap
    /\ Other.buffer = last.oBuf
    /\ WellFormed(heap, Other)

\* Every allocated block is the block of an array.
NoStrayBlock ==
    \A b \in Blocks : heap[b].alloc => \E n \in Names : vec[n].alive /\ vec[n].v.buffer = b

\* C15: a successful copy assignment of `other` into an array with
\* Capacity() >= other.size keeps the destination's block and capacity and
\* allocates nothing; afterwards the size is other.size and the elements
\* are other's; only live slots were assigned to or destroyed and only
\* uninitialized slots constructed, so that exactly the slots
\* [0, other.size) are live; `other` is unchanged.
C15_CopyAssignReusesBlock ==
    ( /\ last.op = "operator=(const&)"
      /\ last.preOk
      /\ last.oOk
      /\ Len(last.oPre) <= last.preCap
      /\ last.exc = "none" )
    => /\ This.buffer = last.preBuf
       /\ This.capacity = last.preCap
       /\ This.size = Len(last.oPre)
       /\ Contents(heap, This) = last.oPre
       /\ WellFormed(heap, This)
       /\ CleanRun
       /\ OtherUnchanged
       /\ NoStrayBlock

\* C15 witness: a smaller array has been assigned into a larger one with
\* other values, and the surplus element was destroyed.
C15_Witness ==
    /\ last.op = "operator=(const&)"
    /\ last.x # last.y
    /\ last.exc = "none"
    /\ Len(last.oPre) >= 1
    /\ PreSize > Len(last.oPre)
    /\ SubSeq(last.pre, 1, Len(last.oPre)) # last.oPre
    /\ This.size = Len(last.oPre)
    /\ This.capacity = last.preCap

\* C16: copy assignment of `other` with other.size > Capacity() is atomic:
\* if the allocation or the copy of an element throws, the destination has
\* the size, capacity, block and element values it had and no block is
\* left without an owner; if it succeeds, the destination holds other's
\* values with size other.size in a new block, its former elements were
\* each destroyed exactly once and its former block was released exactly
\* once; `other` is unchanged either way.
C16_CopyAssignAtomic ==
    ( /\ last.op = "operator=(const&)"
      /\ last.preOk
      /\ last.oOk
      /\ Len(last.oPre) > last.preCap )
    => /\ CleanRun
       /\ OtherUnchanged
       /\ NoStrayBlock
       /\ WellFormed(heap, This)
       /\ IF last.exc # "none"
          THEN /\ last.exc \in {"alloc", "copy"}
               /\ Restored(last.x)
          ELSE /\ Contents(heap, This) = last.oPre
               /\ This.size = Len(last.oPre)
               /\ This.capacity = Len(last.oPre)
               /\ This.buffer # last.preBuf
               /\ This.buffer # Other.buffer
               /\ last.preBuf # Null => ~heap[last.preBuf].alloc

\* C16 witness: the copy of the second element of `other` threw while a
\* non-empty array was being assigned to.
C16_Witness ==
    /\ last.op = "operator=(const&)"
    /\ last.x # last.y
    /\ Len(last.oPre) > last.preCap
    /\ PreSize >= 1
    /\ last.exc = "copy"
    /\ last.excIdx >= 1
    /\ Restored(last.x)

\* The constructed RawMemory objects whose buffer_ is block b.
Owners(b) == {n \in Names : raw[n].alive /\ raw[n].d.buffer = b}

\* The call recorded in `last` has moved the RawMemory last.y into last.x.
Transferred ==
    /\ raw[last.x].d = [buffer |-> last.oBuf, capacity |-> last.oCap]
    /\ raw[last.y].d = EmptyRawMemory

\* C17: moving a RawMemory, by move construction or by move assignment,
\* also into a destination that holds a block, gives the destination the
\* source's block and capacity and leaves the source with a null buffer
\* and capacity 0; after any sequence of allocations, moves, swaps and
\* destructions every allocated block is owned by exactly one RawMemory,
\* every block an object points to is allocated, and no block is released
\* twice.
C17_RawMemoryOwnership ==
    /\ ~last.dfree
    /\ \A b \in Blocks : Cardinality(Owners(b)) = (IF heap[b].alloc THEN 1 ELSE 0)
    /\ \A n \in Names : (raw[n].alive /\ raw[n].d.buffer = Null) => raw[n].d.capacity = 0
    /\ (last.op = "RawMemory(&&)") => Transferred
    /\ (last.op = "RawMemory::operator=(&&)" /\ last.x # last.y) => Transferred

\* C18: a successful Resize(n) with n > size ends with size n, the first
\* oldSize elements unchanged, the slots [oldSize, n) default-constructed
\* and capacity max(oldCapacity, n); with n <= size it destroys exactly the
\* slots [n, oldSize), ends with size n and leaves the capacity and the
\* block unchanged.  If a default construction throws while growing, the
\* size and the values of the existing elements are as before the call
\* and no newly constructed element stays live.
C18_ResizeFunctional ==
    ( /\ last.op = "Resize"
      /\ last.preOk )
    => /\ CleanRun
       /\ WellFormed(heap, A)
       /\ NoStrayBlock
       /\ last.exc = "none" =>
             /\ A.size = last.a1
             /\ IF last.a1 > PreSize
                THEN /\ Contents(heap, A) = last.pre \o Repeat(DefaultVal, last.a1 - PreSize)
                     /\ A.capacity = Max(last.preCap, last.a1)
                ELSE /\ Contents(heap, A) = SubSeq(last.pre, 1, last.a1)
                     /\ A.capacity = last.preCap
                     /\ A.buffer = last.preBuf
       /\ last.exc = "default" =>
             /\ last.a1 > PreSize
             /\ A.size = PreSize
             /\ Contents(heap, A) = last.pre

\* C18 witness: growing a non-empty array beyond its capacity, the default
\* construction of the second new element threw.
C18_Witness ==
    /\ last.op = "Resize"
    /\ last.exc = "default"
    /\ PreSize >= 1
    /\ last.a1 > last.preCap
    /\ last.excIdx > PreSize
    /\ A.size = PreSize

\* The operations of the array that allocate.
AllocatingOps == {"Reserve", "Resize", "PushBack", "Insert", "operator=(const&)"}

C19_Step ==
    ( /\ last'.op \in AllocatingOps
      /\ last'.exc = "alloc" )
    => /\ heap' = heap
       /\ vec' = vec
       /\ ~last'.ub /\ ~last'.leak /\ ~last'.dfree

\* C19: when the allocation fails in Reserve, a growing Resize, a
\* PushBack/EmplaceBack/Insert/Emplace that grows the array, or a copy
\* assignment that needs more capacity, the heap and the arrays are after
\* the call exactly as before it: no element was constructed, moved,
\* copied, assigned or destroyed, and the size, the capacity, the block
\* and the element values are unchanged.
C19_AllocationFailureChangesNothing == [][C19_Step]_vars

\* C19 witness: the allocation failed in an Insert before the first
\* element of a full array.
C19_Witness ==
    /\ last.op = "Insert"
    /\ last.exc = "alloc"
    /\ last.a1 = 0
    /\ PreSize >= 1
    /\ PreSize = last.preCap
    /\ Restored("a")

\* C20: a successful Insert(pos, value) / Emplace(pos, value) in which
\* value refers to the element at index i of the array itself puts a copy
\* of the value that element had before the call at pos, and reads the
\* element only while it is live, on the reallocating path and on the
\* in-place path.
C20_InsertOfOwnElement ==
    ( /\ last.op = "Insert(self)"
      /\ last.preOk
      /\ last.exc = "none" )
    => /\ ~last.ub
       /\ A.size = PreSize + 1
       /\ Contents(heap, A)[last.a1 + 1] = last.pre[last.a2 + 1]

====
